---- MODULE Spec2Model ----
(***************************************************************************)
(* Session / token broker of src/server.js: the express routes /login,     *)
(* /redirect, /logout, /me and /fetch-emails, the server-side session they *)
(* share, and the per-item analysis fan-out of /fetch-emails.              *)
(*                                                                         *)
(* A request that awaits an upstream call is in the bag `inflight` from    *)
(* its arrival to its response; every await of the source is one point     *)
(* where other requests may run.  `sent` is the HTTP response written by   *)
(* the step just taken, together with the request that produced it.        *)
(***************************************************************************)
EXTENDS Integers, Sequences, FiniteSets, Bags, TLC

\* ---- bounds of the model ----
MaxReqs == 2            \* requests that may be in flight at the same time
MaxItems == 2           \* largest page the mail fetch returns in the model

Clients == {"A", "B"}   \* browsers, each presenting its own session cookie

\* ---- values ----
undefined == [undefined |-> TRUE]      \* JavaScript's undefined
destroyed == [destroyed |-> TRUE]      \* history only: logged out, not yet back in

Alice == [id |-> "u1", name |-> "Alice"]
Bob == [id |-> "u2", name |-> "Bob"]
Identities == {Alice, Bob}             \* account records the provider issues

Codes == {"validcode", "expiredcode"}   \* req.query.code, opaque to the server

NoResponse == [route |-> "none"]

text(s) == [text |-> s]
json(v) == [json |-> v]

VARIABLES
    store,      \* session store: client cookie -> req.session.account
    inflight,   \* bag of the requests waiting on an upstream call
    sent,       \* response written by the last step, or NoResponse
    exchanged   \* history, per session: the identity the last successful
                \* exchange produced, `destroyed` once a logout has followed
                \* it, undefined before the first of either

vars == <<store, inflight, sent, exchanged>>

\* ---- identity provider (MSAL client) ----

\* pca.acquireTokenByCode: the results the provider may give for a code.  The
\* account is the one that consented when the code was issued, which the code
\* does not show; a code is redeemable once, so a valid code may also be
\* refused.
acquireTokenByCode(code) ==
    IF code = "validcode"
    THEN {[ok |-> TRUE, account |-> a, accessToken |-> "at-code"] : a \in Identities}
         \cup {[ok |-> FALSE, error |-> "invalid_grant"]}
    ELSE {[ok |-> FALSE, error |-> "invalid_grant"]}

\* pca.getAuthCodeUrl
getAuthCodeUrl ==
    {[ok |-> TRUE, url |-> "https://login.microsoftonline.com/common/authorize"],
     [ok |-> FALSE, error |-> "ClientConfigurationError"]}

\* Access tokens, by where they come from: the code exchange, the provider
\* client's cache while still valid, or a renewal with the refresh credential.
\* The token of the exchange is the one that has expired when the cache has.
AccessTokens == {"at-code", "at-cached", "at-renewed"}
Unexpired == {"at-cached", "at-renewed"}

\* pca.acquireTokenSilent: the cached token while it is valid; once it has
\* expired, a renewed one, or the error of the renewal, by error class and
\* error code.
acquireTokenSilent ==
    {[ok |-> TRUE, accessToken |-> "at-cached"],
     [ok |-> TRUE, accessToken |-> "at-renewed"],
     [ok |-> FALSE, error |-> "InteractionRequiredAuthError",
      errorCode |-> "consent_required"],
     [ok |-> FALSE, error |-> "InteractionRequiredAuthError",
      errorCode |-> "no_tokens_found"],
     [ok |-> FALSE, error |-> "ServerError", errorCode |-> "invalid_grant"],
     [ok |-> FALSE, error |-> "ClientAuthError", errorCode |-> "network_error"]}

\* ---- responses ----

\* The response to the request q, with what the handler knew of q.
Respond(q, status, body) ==
    [k \in (DOMAIN q \ {"pc"}) \cup {"status", "body"} |->
        CASE k = "status" -> status
          [] k = "body"   -> body
          [] OTHER        -> q[k]]

\* ---- request bookkeeping ----
CanAccept == BagCardinality(inflight) < MaxReqs

\* /fetch-emails requests in flight share nothing: each reads the session once,
\* on arrival, and writes only its own response.  The model lets one of them
\* at a time be in flight, next to the other requests.
NoFetchInFlight == \A q \in BagToSet(inflight) : q.route # "fetch"
Waiting(pc) == {q \in BagToSet(inflight) : q.pc = pc}
Suspend(q) == inflight' = inflight (+) SetToBag({q})
Resume(q, q2) == inflight' = (inflight (-) SetToBag({q})) (+) SetToBag({q2})
Finish(q) == inflight' = inflight (-) SetToBag({q})

Init ==
    /\ store = [c \in Clients |-> undefined]
    /\ inflight = EmptyBag
    /\ sent = NoResponse
    /\ exchanged = [c \in Clients |-> undefined]

\* ---- GET /login ----
Login ==
    /\ CanAccept
    /\ Suspend([route |-> "login", pc |-> "auth_url"])
    /\ sent' = NoResponse
    /\ UNCHANGED <<store, exchanged>>

LoginResolve ==
    \E q \in Waiting("auth_url") :
        /\ \E response \in getAuthCodeUrl :
              sent' = IF response.ok
                      THEN Respond(q, 302, text(response.url))
                      ELSE Respond(q, 500, text(response.error))
        /\ Finish(q)
        /\ UNCHANGED <<store, exchanged>>

\* ---- GET /redirect ----

\* A slip: a new sign-in first removes the identity the session holds.
Redirect_clearsFirst(c, code) ==
    /\ CanAccept
    /\ Suspend([route |-> "redirect", client |-> c, pc |-> "exchange", code |-> code])
    /\ sent' = NoResponse
    /\ store' = [store EXCEPT ![c] = undefined]
    /\ UNCHANGED exchanged

Redirect(c, code) ==
    /\ CanAccept
    /\ Suspend([route |-> "redirect", client |-> c, pc |-> "exchange", code |-> code])
    /\ sent' = NoResponse
    /\ UNCHANGED <<store, exchanged>>

\* A slip: the account is stored under another key of the session.
sessionAccount_otherKey(response) == undefined

\* A slip: only the identifier of the account is stored.
sessionAccount_idOnly(response) == [id |-> response.account.id]

\* A slip: the whole token response is stored in the session.
sessionAccount_wholeResponse(response) == response

\* req.session.account = response.account, saved with the response.
sessionAccount(response) == response.account

\* A slip: a failed exchange signs the session out.
RedirectResolve_clearsOnFailure ==
    \E q \in Waiting("exchange") :
        /\ \E response \in acquireTokenByCode(q.code) :
              IF response.ok
              THEN /\ store' = [store EXCEPT ![q.client] = sessionAccount(response)]
                   /\ exchanged' = [exchanged EXCEPT ![q.client] = response.account]
                   /\ sent' = Respond(q @@ [account |-> response.account,
                                             before |-> exchanged[q.client]], 200,
                                      text("<script>window.close();</script>"))
              ELSE /\ sent' = Respond(q, 500, text(response.error))
                   /\ store' = [store EXCEPT ![q.client] = undefined]
                   /\ UNCHANGED exchanged
        /\ Finish(q)

RedirectResolve ==
    \E q \in Waiting("exchange") :
        /\ \E response \in acquireTokenByCode(q.code) :
              IF response.ok
              THEN /\ store' = [store EXCEPT ![q.client] = sessionAccount(response)]
                   /\ exchanged' = [exchanged EXCEPT ![q.client] = response.account]
                   /\ sent' = Respond(q @@ [account |-> response.account,
                                             before |-> exchanged[q.client]], 200,
                                      text("<script>window.close();</script>"))
              ELSE /\ sent' = Respond(q, 500, text(response.error))
                   /\ UNCHANGED <<store, exchanged>>
        /\ Finish(q)

\* ---- GET /logout ----

\* A slip: a logout without a signed-in user is refused.
logoutResponse_requiresLogin(account) ==
    IF account = undefined
    THEN [status |-> 401, body |-> text("User not authenticated.")]
    ELSE [status |-> 200, body |-> text("Successfully logged out")]

\* The callback of req.session.destroy.
logoutResponse(account) ==
    [status |-> 200, body |-> text("Successfully logged out")]

\* A slip: the logout empties the session store.
Logout_allSessions(c) ==
    /\ CanAccept
    /\ store' = [k \in Clients |-> undefined]
    /\ exchanged' = [k \in Clients |-> destroyed]
    /\ sent' = Respond([route |-> "logout", client |-> c, account |-> store[c],
                        before |-> exchanged[c]],
                       logoutResponse(store[c]).status, logoutResponse(store[c]).body)
    /\ UNCHANGED inflight

\* A slip: the callback answers, the session is not destroyed.
Logout_keepsSession(c) ==
    /\ CanAccept
    /\ exchanged' = [exchanged EXCEPT ![c] = destroyed]
    /\ sent' = Respond([route |-> "logout", client |-> c, account |-> store[c],
                        before |-> exchanged[c]],
                       logoutResponse(store[c]).status, logoutResponse(store[c]).body)
    /\ UNCHANGED <<store, inflight>>

\* req.session.destroy removes the session from the store and then calls back;
\* nothing the callback does depends on what runs in between, so the two are
\* one step.
Logout(c) ==
    /\ CanAccept
    /\ store' = [store EXCEPT ![c] = undefined]
    /\ exchanged' = [exchanged EXCEPT ![c] = destroyed]
    /\ sent' = Respond([route |-> "logout", client |-> c, account |-> store[c],
                        before |-> exchanged[c]],
                       logoutResponse(store[c]).status, logoutResponse(store[c]).body)
    /\ UNCHANGED inflight

\* ---- GET /me ----
\* A slip: the account is sent without the check.
meBody_unchecked(account) == json([loggedIn |-> TRUE, account |-> account])

meBody(account) ==
    IF account # undefined
    THEN json([loggedIn |-> TRUE, account |-> account])
    ELSE json([loggedIn |-> FALSE])

\* A slip: the account is taken out of the session when it is reported.
Me_takesAccount(c) ==
    /\ CanAccept
    /\ sent' = Respond([route |-> "me", client |-> c, account |-> store[c]],
                       200, meBody(store[c]))
    /\ store' = [store EXCEPT ![c] = undefined]
    /\ UNCHANGED <<inflight, exchanged>>

Me(c) ==
    /\ CanAccept
    /\ sent' = Respond([route |-> "me", client |-> c, account |-> store[c]],
                       200, meBody(store[c]))
    /\ UNCHANGED <<store, inflight, exchanged>>

\* ---- analysis service (Gemini) ----

FENCE_JSON == "[fence]json"   \* three backticks followed by json
FENCE == "[fence]"            \* three backticks
SPACE == " "

\* The JSON documents a reply may carry, by name, and the value each parses to.
Docs == {"doc_rfi", "doc_partial"}

JSONValue(doc) ==
    CASE doc = "doc_rfi" ->
            [summary |-> "Beam discrepancy on drawing S-102.",
             actionItems |-> <<"Consult structural engineer.">>,
             sentiment |-> "Negative", docType |-> "RFI"]
      [] doc = "doc_partial" ->
            [summary |-> "Beam discrepancy on drawing S-102.",
             sentiment |-> "Frustrated"]

\* What model.generateContent / response.text() may do: throw, or give a text
\* (a sequence of tokens).
GeminiOutcomes ==
    {[kind |-> "error"],
     [kind |-> "text", text |-> <<FENCE_JSON, SPACE, "doc_rfi", SPACE, FENCE>>],
     [kind |-> "text", text |-> <<"Here is the JSON:", FENCE_JSON, "doc_rfi", FENCE>>],
     [kind |-> "text", text |-> <<"doc_partial">>]}

\* String.prototype.replace with a global pattern and an empty replacement:
\* every occurrence of the token is dropped.
replace(s, token) == SelectSeq(s, LAMBDA t : t # token)

RECURSIVE trimStart(_)
trimStart(s) == IF s # <<>> /\ Head(s) = SPACE THEN trimStart(Tail(s)) ELSE s

RECURSIVE trimEnd(_)
trimEnd(s) ==
    IF s # <<>> /\ s[Len(s)] = SPACE THEN trimEnd(SubSeq(s, 1, Len(s) - 1)) ELSE s

trim(s) == trimEnd(trimStart(s))

\* JSON.parse: one document and nothing else, or a SyntaxError.
JSONParse(s) ==
    IF Len(s) = 1 /\ s[1] \in Docs
    THEN [ok |-> TRUE, value |-> JSONValue(s[1])]
    ELSE [ok |-> FALSE, error |-> "SyntaxError"]

FALLBACK ==
    [summary |-> "AI analysis failed.", actionItems |-> <<>>,
     sentiment |-> "Neutral", docType |-> "Unknown"]

\* The try block of getGeminiAnalysis, given what the service did: the value
\* it returns, or the error it throws.
tryAnalysis(outcome) ==
    IF outcome.kind = "error"
    THEN [ok |-> FALSE, error |-> "GoogleGenerativeAIError"]
    ELSE LET jsonString == trim(replace(replace(outcome.text, FENCE_JSON), FENCE))
         IN  JSONParse(jsonString)

\* getGeminiAnalysis: the value the returned promise is fulfilled with, and
\* whether the catch block ran (and logged the failure).
getGeminiAnalysis(outcome) ==
    LET tried == tryAnalysis(outcome)
    IN  IF tried.ok
        THEN [caught |-> FALSE, value |-> tried.value]
        ELSE [caught |-> TRUE, value |-> FALLBACK]

\* ---- mail API (Graph client) ----

TAGS == {"<p>", "</p>"}
HtmlBody == [content |-> <<"<p>", "Beam", "</p>">>]

MailItem(i, body) == [id |-> i, subject |-> "RFI", body |-> body]

\* The pages messagesRequest.get() may return: up to MaxItems items, numbered
\* in fetch order, each with or without a body.
Batches ==
    UNION {{[i \in 1..n |-> MailItem(i, b[i])] : b \in [1..n -> {HtmlBody, undefined}]}
           : n \in 0..MaxItems}

messagesGet == {[ok |-> FALSE, error |-> "GraphError"]}
               \cup {[ok |-> TRUE, value |-> batch] : batch \in Batches}

\* email.body.content.replace(tag pattern, empty string)
cleanBody(email) == SelectSeq(email.body.content, LAMBDA t : t \notin TAGS)

\* { ...email, analysis }
Enriched(email, analysis) == [analysis |-> analysis] @@ email

\* ---- POST /fetch-emails ----

\* A slip: every error is answered alike.
Catch_generic(error) ==
    [status |-> 500, body |-> text("Error fetching or analyzing emails.")]

\* The catch block of the handler.
Catch(error) ==
    IF error = "InteractionRequiredAuthError"
    THEN [status |-> 401, body |-> text("Session expired. Please log in again.")]
    ELSE [status |-> 500, body |-> text("Error fetching or analyzing emails.")]

\* The request q, now in the state q2, ends in the catch block.
Fail(q, q2, error) ==
    /\ sent' = Respond(q2 @@ [error |-> error], Catch(error).status, Catch(error).body)
    /\ Finish(q)

\* A slip: the guard lets every session through.
isAuthenticated_always(account) == TRUE

\* if (!req.session.account) return 401
isAuthenticated(account) == account # undefined

\* A slip: the mail fetch is started together with the token acquisition.
firstCalls_eagerFetch(account) ==
    <<[op |-> "acquireTokenSilent", account |-> account],
      [op |-> "messages.get"]>>

\* A slip: the token is asked for the first account of the provider client's
\* cache.
firstCalls_cachedAccount(account) ==
    <<[op |-> "acquireTokenSilent", account |-> Alice]>>

\* The upstream calls the handler issues before its first await.
firstCalls(account) == <<[op |-> "acquireTokenSilent", account |-> account]>>

FetchEmails(c) ==
    /\ CanAccept
    /\ IF ~isAuthenticated(store[c])
       THEN /\ sent' = Respond([route |-> "fetch", client |-> c, account |-> store[c],
                                calls |-> <<>>],
                               401, text("User not authenticated."))
            /\ UNCHANGED inflight
       ELSE /\ NoFetchInFlight
            /\ Suspend([route |-> "fetch", pc |-> "token", account |-> store[c],
                        calls |-> firstCalls(store[c])])
            /\ sent' = NoResponse
    /\ UNCHANGED <<store, exchanged>>

\* A slip: the token of the code exchange is kept and used for the mail API.
authProvider_keptToken(accessToken) == "at-code"

\* Client.init({ authProvider: (done) => done(null, accessToken) })
authProvider(accessToken) == accessToken

\* The token call comes back.  While the mail fetch is out the request holds
\* the token it was given (accessToken) and the token the mail API client sends
\* (bearer); neither is used once the mail fetch has come back.
TokenResolve ==
    \E q \in Waiting("token") :
        /\ \E tokenResponse \in acquireTokenSilent :
              IF tokenResponse.ok
              THEN /\ Resume(q, [pc |-> "mail",
                                  accessToken |-> tokenResponse.accessToken,
                                  bearer |-> authProvider(tokenResponse.accessToken),
                                  calls |-> Append(q.calls, [op |-> "messages.get"])]
                                 @@ q)
                   /\ sent' = NoResponse
              ELSE Fail(q, [errorCode |-> tokenResponse.errorCode] @@ q,
                        tokenResponse.error)
        /\ UNCHANGED <<store, exchanged>>

\* The mapper of messages.value.map, up to its first await: a rejected promise
\* when the body cannot be read, else a pending one with its analysis call out.
Mapper(email) ==
    IF email.body = undefined
    THEN [state |-> "rejected", error |-> "TypeError"]
    ELSE [state |-> "pending"]

AnalysisCalls(items) ==
    LET withBody == SelectSeq(items, LAMBDA e : e.body # undefined)
    IN  [k \in 1..Len(withBody) |->
            [op |-> "generateContent", item |-> withBody[k].id,
             content |-> <<withBody[k].subject>> \o cleanBody(withBody[k])]]

\* A slip: the results are collected as the calls come back.
analyzedEmails_asCompleted(items, promises) ==
    [k \in 1..Len(items) |->
        LET i == CHOOSE j \in 1..Len(items) : promises[j].nth = k
        IN  Enriched(items[i], promises[i].value)]

\* What Promise.all resolves to once every promise is fulfilled: the mappers'
\* return values, at the positions of their promises.
analyzedEmails(items, promises) ==
    [i \in 1..Len(items) |-> Enriched(items[i], promises[i].value)]

\* await Promise.all(analysisPromises) for the request q, now in the state q2,
\* and the response that follows when it settles.
Join(q, q2) ==
    LET n == Len(q2.items)
    IN  IF \E i \in 1..n : q2.promises[i].state = "rejected"
        THEN Fail(q, q2, "TypeError")
        ELSE IF \A i \in 1..n : q2.promises[i].state = "fulfilled"
        THEN /\ sent' = Respond(q2, 200, json(analyzedEmails(q2.items, q2.promises)))
             /\ Finish(q)
        ELSE /\ Resume(q, q2)
             /\ sent' = NoResponse

MailResolve ==
    \E q \in Waiting("mail") :
        /\ \E messages \in messagesGet :
              IF messages.ok
              THEN Join(q, [route |-> q.route, pc |-> "join", account |-> q.account,
                            items |-> messages.value,
                            promises |-> [i \in 1..Len(messages.value) |->
                                             Mapper(messages.value[i])],
                            calls |-> q.calls \o AnalysisCalls(messages.value)])
              ELSE Fail(q, [route |-> q.route, account |-> q.account,
                            calls |-> q.calls], messages.error)
        /\ UNCHANGED <<store, exchanged>>

\* How many of the promises are fulfilled.
Fulfilled(promises) ==
    Cardinality({k \in DOMAIN promises : promises[k].state = "fulfilled"})

\* One analysis call comes back, in any order; `nth` keeps the order in which
\* the calls came back.
AnalysisResolve(i) ==
    \E q \in Waiting("join") :
        /\ i \in 1..Len(q.items)
        /\ q.promises[i].state = "pending"
        /\ \E outcome \in GeminiOutcomes :
              Join(q, [q EXCEPT !.promises[i] =
                          [state |-> "fulfilled", nth |-> Fulfilled(q.promises) + 1]
                              @@ getGeminiAnalysis(outcome)])
        /\ UNCHANGED <<store, exchanged>>

Next ==
    \/ Login
    \/ LoginResolve
    \/ \E c \in Clients, code \in Codes : Redirect(c, code)
    \/ RedirectResolve
    \/ \E c \in Clients : Logout(c)
    \/ \E c \in Clients : Me(c)
    \/ \E c \in Clients : FetchEmails(c)
    \/ TokenResolve
    \/ MailResolve
    \/ \E i \in 1..MaxItems : AnalysisResolve(i)

Spec == Init /\ [][Next]_vars

\* ---- upstream calls that never come back ----

\* The mail fetch, or one of the analysis calls, of a request never settles:
\* the handler stays at its await, which nothing else ends.
UpstreamHangs ==
    /\ \E q \in Waiting("mail") \cup Waiting("join") :
          Resume(q, [q EXCEPT !.pc = "stalled"])
    /\ sent' = NoResponse
    /\ UNCHANGED <<store, exchanged>>

NextUpstream == Next \/ UpstreamHangs

\* The event loop runs the continuation of every call that has come back.
Continuations ==
    /\ WF_vars(LoginResolve)
    /\ WF_vars(RedirectResolve)
    /\ WF_vars(TokenResolve)
    /\ WF_vars(MailResolve)
    /\ \A i \in 1..MaxItems : WF_vars(AnalysisResolve(i))

LiveSpec == Init /\ [][NextUpstream]_vars /\ Continuations
\* ---- properties ----

InFlight == BagToSet(inflight)
FetchResponse == sent.route = "fetch"
BatchResponse == FetchResponse /\ sent.status = 200
Ops(calls) == {calls[k].op : k \in DOMAIN calls}

\* C1: a 200 response of /fetch-emails has one entry per fetched item, entry i
\* being item i with the analysis of its own call, in fetch order whatever the
\* order in which the calls came back, and the entries whose call failed
\* inside getGeminiAnalysis are exactly those carrying the fallback record.
BatchKeepsFetchOrder ==
    BatchResponse =>
        /\ Len(sent.body.json) = Len(sent.items)
        /\ \A i \in 1..Len(sent.items) :
              LET entry == sent.body.json[i]
              IN  /\ entry.id = sent.items[i].id
                  /\ entry.subject = sent.items[i].subject
                  /\ entry.body = sent.items[i].body
                  /\ entry.analysis = sent.promises[i].value
                  /\ sent.promises[i].caught <=> entry.analysis = FALLBACK

\* Two items, the second one's call came back first and failed.
BatchOutOfOrderWitness ==
    /\ BatchResponse
    /\ Len(sent.items) = 2
    /\ sent.promises[2].nth = 1 /\ sent.promises[2].caught
    /\ sent.promises[1].nth = 2 /\ ~sent.promises[1].caught
    /\ sent.body.json[2].analysis = FALLBACK
    /\ sent.body.json[1].analysis = JSONValue("doc_rfi")

\* C2: a /fetch-emails request asks for the token before anything else, and
\* when the token acquisition fails it has issued no mail fetch and no
\* analysis call.
TokenErrors == {"InteractionRequiredAuthError", "ServerError", "ClientAuthError"}

TokenFirst(calls) ==
    /\ calls # <<>> => calls[1].op = "acquireTokenSilent"
    /\ \A k \in DOMAIN calls : calls[k].op = "generateContent" =>
          \E j \in 1..(k - 1) : calls[j].op = "messages.get"

TokenBeforeMailFetch ==
    /\ \A q \in InFlight : q.route = "fetch" =>
          /\ TokenFirst(q.calls)
          /\ q.pc = "token" => Ops(q.calls) = {"acquireTokenSilent"}
    /\ FetchResponse =>
          /\ TokenFirst(sent.calls)
          /\ ("error" \in DOMAIN sent /\ sent.error \in TokenErrors) =>
                Ops(sent.calls) = {"acquireTokenSilent"}

TokenFailureWitness ==
    /\ FetchResponse
    /\ sent.status = 500
    /\ sent.error = "ClientAuthError"
    /\ Len(sent.calls) = 1

\* C3: an authenticated /fetch-emails answers 401 "Session expired. Please log
\* in again." exactly when the token acquisition failed with the
\* interaction-required error, and 500 "Error fetching or analyzing emails."
\* when the mail fetch failed.
ReauthDistinguished ==
    (FetchResponse /\ sent.account # undefined) =>
        /\ sent.status = 401 <=>
              ("error" \in DOMAIN sent /\ sent.error = "InteractionRequiredAuthError")
        /\ sent.status = 401 =>
              sent.body = text("Session expired. Please log in again.")
        /\ ("error" \in DOMAIN sent /\ sent.error = "GraphError") =>
              /\ sent.status = 500
              /\ sent.body = text("Error fetching or analyzing emails.")

ReauthWitness ==
    /\ FetchResponse
    /\ sent.account = Alice
    /\ sent.status = 401
    /\ sent.error = "InteractionRequiredAuthError"

\* C4: once an exchange has succeeded on a session and no logout has followed,
\* /me on that session answers loggedIn true with the account that exchange
\* produced.
MeReturnsExchangedIdentity ==
    (sent.route = "me" /\ exchanged[sent.client] \in Identities) =>
        /\ sent.status = 200
        /\ sent.body = json([loggedIn |-> TRUE, account |-> exchanged[sent.client]])

MeAfterExchangeWitness ==
    /\ sent.route = "me"
    /\ exchanged[sent.client] = Alice
    /\ sent.body.json.loggedIn
    /\ sent.body.json.account = Alice

\* C5: /me on a session that holds no identity answers 200 {loggedIn: false},
\* with no account in it.
MeAnonymous ==
    (sent.route = "me" /\ store[sent.client] = undefined) =>
        /\ sent.status = 200
        /\ sent.body = json([loggedIn |-> FALSE])

\* /me on a session whose identity a logout has removed.
MeAfterLogoutWitness ==
    /\ sent.route = "me"
    /\ store[sent.client] = undefined
    /\ exchanged[sent.client] = destroyed
    /\ ~sent.body.json.loggedIn

\* C6: /fetch-emails on a session with no identity answers 401 "User not
\* authenticated." at once, having issued no call, and no such request is ever
\* waiting on an upstream call.
UnauthenticatedFetchRejected ==
    /\ (FetchResponse /\ sent.account = undefined) =>
          /\ sent.status = 401
          /\ sent.body = text("User not authenticated.")
          /\ sent.calls = <<>>
    /\ \A q \in InFlight : q.route = "fetch" => q.account \in Identities

UnauthenticatedFetchWitness ==
    /\ FetchResponse
    /\ sent.account = undefined
    /\ store[sent.client] = undefined
    /\ sent.status = 401

\* C7: every analysis in a 200 response of /fetch-emails has the fixed shape
\* {summary, actionItems, sentiment in {Positive, Negative, Neutral}, docType}.
IsAnalysisResult(a) ==
    /\ DOMAIN a = {"summary", "actionItems", "sentiment", "docType"}
    /\ a.sentiment \in {"Positive", "Negative", "Neutral"}

AnalysisHasFixedShape ==
    BatchResponse =>
        \A i \in 1..Len(sent.body.json) : IsAnalysisResult(sent.body.json[i].analysis)

\* C8: once the mail fetch has succeeded the request answers 200 with the full
\* batch, after every per-item task has finished.
NoItemAbortsBatch ==
    (FetchResponse /\ "items" \in DOMAIN sent) =>
        /\ sent.status = 200
        /\ \A i \in 1..Len(sent.items) : sent.promises[i].state = "fulfilled"

\* C9: /logout answers 200 whatever the session held; it leaves the session
\* without identity, and on a session that has none it changes nothing.
LogoutIdempotent ==
    /\ [](sent.route = "logout" =>
            /\ sent.status = 200
            /\ store[sent.client] = undefined)
    /\ [][(sent'.route = "logout" /\ store[sent'.client] = undefined) =>
            store' = store]_vars

\* The answer to a /logout on a session that the previous /logout had already
\* destroyed.
SecondLogoutWitness ==
    /\ sent.route = "logout"
    /\ sent.before = destroyed
    /\ sent.account = undefined
    /\ sent.status = 200

\* C10: in every reachable state a session holds no identity, or the complete
\* account record of the last successful exchange on it.
IsIdentityRecord(a) == DOMAIN a = {"id", "name"} /\ a \in Identities

SessionHoldsWholeIdentity ==
    \A c \in Clients :
        \/ store[c] = undefined
        \/ IsIdentityRecord(store[c]) /\ store[c] = exchanged[c]

\* Both sessions signed in, as different accounts, while requests are waiting.
TwoSessionsWitness ==
    /\ store["A"] = Alice
    /\ store["B"] = Bob
    /\ BagCardinality(inflight) >= 2

\* C11: whenever the silent token acquisition fails for a reason that only
\* the user can remove (the refresh credential revoked, the consent withdrawn,
\* the account missing from the provider client's cache), /fetch-emails
\* answers 401 and never 500.
NeedsInteraction == {"consent_required", "no_tokens_found", "invalid_grant"}

ReauthAlways401 ==
    (FetchResponse /\ "errorCode" \in DOMAIN sent
                   /\ sent.errorCode \in NeedsInteraction) =>
        sent.status = 401

HasToken(r) == "accessToken" \in DOMAIN r \/ "bearer" \in DOMAIN r

BodyHasToken(response) ==
    IF "text" \in DOMAIN response.body
    THEN response.body.text \in AccessTokens
    ELSE IF response.route = "me"
    THEN \/ HasToken(response.body.json)
         \/ response.body.json.loggedIn /\ HasToken(response.body.json.account)
    ELSE \E i \in DOMAIN response.body.json :
            \/ HasToken(response.body.json[i])
            \/ HasToken(response.body.json[i].analysis)

TokenStaysInRequest ==
    /\ \A c \in Clients : ~HasToken(store[c])
    /\ sent # NoResponse => ~BodyHasToken(sent)
    /\ \A q \in InFlight : HasToken(q) => q.route = "fetch" /\ q.pc = "mail"

\* A session is signed in by an exchange that also returned an access token,
\* and /me answers for it while a request holds a token for its mail fetch.
TokenHeldWitness ==
    /\ sent.route = "me"
    /\ sent.body = json([loggedIn |-> TRUE, account |-> Alice])
    /\ store[sent.client] = Alice
    /\ \E q \in InFlight : q.route = "fetch" /\ q.pc = "mail" /\ q.bearer \in Unexpired

\* C14 as stated: once a session holds an identity no step replaces it before
\* a logout, and no /logout is answered while a /redirect on the same session
\* is still out.
WrittenOncePerLoginCycle ==
    /\ [][\A c \in Clients :
             store[c] # undefined => store'[c] \in {store[c], undefined}]_vars
    /\ [](sent.route = "logout" =>
             \A q \in InFlight : q.route = "redirect" => q.client # sent.client)

\* C14: a session's identity is written only by /redirect, once for each
\* exchange that succeeds and as the whole account of that exchange, and is
\* removed only by /logout; requests on the same session may overlap, and the
\* identity is then the one of the exchange that came back last.
SessionWrittenPerExchange ==
    [][/\ \A c \in Clients : store'[c] # store[c] =>
             /\ sent'.route \in {"redirect", "logout"}
             /\ sent'.client = c
       /\ sent'.route = "redirect" =>
             \/ sent'.status = 200 /\
                store' = [store EXCEPT ![sent'.client] = sent'.account]
             \/ sent'.status = 500 /\ store' = store
       /\ sent'.route = "logout" =>
             store' = [store EXCEPT ![sent'.client] = undefined]]_vars

\* Of two /redirect requests out on the same session one has come back and has
\* written the identity over the one the session held; the other is still out.
OverlappingRedirectWitness ==
    /\ sent.route = "redirect" /\ sent.status = 200
    /\ store[sent.client] = Bob
    /\ exchanged[sent.client] = Bob
    /\ \E q \in InFlight : q.route = "redirect" /\ q.client = sent.client
                             /\ q.code = "validcode"

\* C15: from the answer to a /logout until an exchange succeeds on the session
\* again, the session holds no identity, every /me on it answers
\* {loggedIn: false}, every /fetch-emails on it answers 401 and none is let
\* through; and when an exchange succeeds the session holds exactly the
\* account of that exchange.
LoggedOut(c) == exchanged[c] = destroyed

LogoutClearsUntilRelogin ==
    /\ [](\A c \in Clients : LoggedOut(c) => store[c] = undefined)
    /\ []((sent.route = "me" /\ LoggedOut(sent.client)) =>
             sent.body = json([loggedIn |-> FALSE]))
    /\ []((FetchResponse /\ "client" \in DOMAIN sent /\ LoggedOut(sent.client)) =>
             /\ sent.status = 401
             /\ sent.body = text("User not authenticated."))
    /\ [][\A q \in BagToSet(inflight') :
             (q.route = "fetch" /\ q.pc = "token" /\ NoFetchInFlight) =>
                \E c \in Clients : /\ ~LoggedOut(c)
                                   /\ store[c] # undefined
                                   /\ store[c] = q.account]_vars
    /\ []((sent.route = "redirect" /\ sent.status = 200) =>
             /\ store[sent.client] = sent.account
             /\ DOMAIN store[sent.client] = DOMAIN sent.account)

\* A session that had been logged out is signed in again, as Bob, and holds
\* Bob's account.
ReloginWitness ==
    /\ sent.route = "redirect" /\ sent.status = 200
    /\ sent.before = destroyed
    /\ sent.account = Bob
    /\ store[sent.client] = Bob

\* C16: every /fetch-emails request that is let through is answered in the
\* end, also when its mail fetch or one of its analysis calls never comes
\* back.
FetchEventuallyAnswered ==
    (\E q \in InFlight : q.route = "fetch") ~> (\A q \in InFlight : q.route # "fetch")

\* C17: a /redirect whose exchange fails answers 500 with the error of the
\* exchange, and the step leaves every session as it was: an anonymous session
\* stays anonymous, a signed-in one keeps its identity.
ExchangeErrors == {"invalid_grant"}

FailedExchangeKeepsSession ==
    /\ [](sent.route = "redirect" => sent.status \in {200, 500})
    /\ [][(sent'.route = "redirect" /\ sent'.status # 200) =>
             /\ sent'.body \in {text(e) : e \in ExchangeErrors}
             /\ store' = store
             /\ exchanged' = exchanged]_vars

\* The exchange failed on a session that is signed in as Alice.
FailedExchangeWitness ==
    /\ sent.route = "redirect" /\ sent.status = 500
    /\ sent.code = "expiredcode"
    /\ store[sent.client] = Alice

\* C18: a step changes a session's identity only when it answers a /redirect
\* with 200 or answers a /logout; every step of a /login, /me or /fetch-emails
\* request, whatever it answers, leaves every session's identity as it was.
OnlyExchangeAndLogoutWrite ==
    [][/\ store' # store =>
             \/ sent'.route = "redirect" /\ sent'.status = 200
             \/ sent'.route = "logout"
       /\ sent'.route \in {"login", "me", "fetch"} =>
             /\ sent'.status \in {200, 302, 401, 500}
             /\ store' = store]_vars

\* /fetch-emails has answered that the session has expired, and the session
\* still holds the identity.
ExpiredButSignedInWitness ==
    /\ FetchResponse /\ sent.status = 401
    /\ "error" \in DOMAIN sent
    /\ \A c \in Clients : store[c] = sent.account

\* C19: a request on one session neither reads nor changes the identity of
\* another: /me and /logout answer from the identity of their own session, the
\* identity /me reports comes from an exchange on that session, and a step
\* changes the identity of no session but the one of the request it answers.
SessionsIsolated ==
    /\ []((sent.route = "me" /\ sent.body.json.loggedIn) =>
             /\ sent.body.json.account = store[sent.client]
             /\ sent.body.json.account = exchanged[sent.client])
    /\ [][/\ sent'.route \in {"me", "logout"} => sent'.account = store[sent'.client]
          /\ \A c \in Clients : store'[c] # store[c] =>
                "client" \in DOMAIN sent' /\ sent'.client = c]_vars

\* Session A has been logged out while session B stays signed in.
OtherSessionKeptWitness ==
    /\ sent.route = "logout" /\ sent.client = "A"
    /\ sent.account = Alice
    /\ store["A"] = undefined
    /\ store["B"] = Bob

\* C20: the identity a /fetch-emails request asks the token for is the one its
\* session held when the request passed the check; while the request is
\* suspended no step of any other request changes that identity or takes the
\* request away, and the request ends with 200, 401 or 500.
IdentityReadOnce ==
    /\ [](\A q \in InFlight : q.route = "fetch" =>
             /\ q.account \in Identities
             /\ q.calls[1] = [op |-> "acquireTokenSilent", account |-> q.account])
    /\ []((FetchResponse /\ sent.calls # <<>>) =>
             /\ sent.calls[1] = [op |-> "acquireTokenSilent", account |-> sent.account]
             /\ sent.status \in {200, 401, 500})
    /\ [][\A q \in BagToSet(inflight') :
             (q.route = "fetch" /\ q.pc = "token" /\ NoFetchInFlight) =>
                \E c \in Clients : isAuthenticated(store[c]) /\ q.account = store[c]]_vars
    /\ [][\A q \in InFlight : q.route = "fetch" =>
             \/ \E q2 \in BagToSet(inflight') :
                   /\ q2.route = "fetch"
                   /\ q2.account = q.account
                   /\ q2.calls[1] = q.calls[1]
             \/ /\ sent'.route = "fetch"
                /\ sent'.account = q.account
                /\ sent'.calls[1] = q.calls[1]]_vars

\* A request let through as Alice is answered 200 for Alice although, since
\* then, its session has been logged out or signed in as someone else.
SessionChangedMeanwhileWitness ==
    /\ BatchResponse
    /\ sent.account = Alice
    /\ \A c \in Clients : store[c] # Alice
    /\ \E c \in Clients : exchanged[c] = destroyed
====
